---- MODULE Spec2Model ----
(***************************************************************************)
(* A model of frnsys/agenda: the instant parsers (ics.rs, moment.rs), the  *)
(* ordering of Moment and Event, the fold of parse_ics over the VEVENTs    *)
(* of one file, the recurrence set it builds, and load_upcoming_events.    *)
(*                                                                         *)
(* Time is a line of integer instants (UTC).  DayLen instants make one     *)
(* civil day, so day d starts at the instant d * DayLen.                   *)
(***************************************************************************)
EXTENDS Integers, Sequences, FiniteSets, TLC

\* ------------------------------------------------------------------ bounds
DayLen == 2
MaxT == 8

None == "None"

Instants == 0..MaxT
Days == 0..(MaxT \div DayLen)

\* ------------------------------------------------------------------ zones
\* chrono_tz zones: UTC, one named zone with a spring-forward gap and a
\* fall-back fold, and a name that resolves to no zone.
UTC == "UTC"
NamedZone == "America/New_York"
BogusZone == "Nowhere/Bogus"
KnownZones == {UTC, NamedZone}
TzParams == {None, UTC, NamedZone, BogusZone}

\* Offset of zone z at the UTC instant u.  The named zone is at -2 until
\* instant 3, at -1 (summer time) until instant 6, and at -2 again after.
Offset(z, u) ==
    IF z = UTC THEN 0
    ELSE IF u < 3 THEN -2
    ELSE IF u < 6 THEN -1
    ELSE -2

\* The wall-clock reading of instant u in zone z (DateTime::with_timezone).
ToLocal(z, u) == u + Offset(z, u)

\* chrono's LocalResult: the UTC instants whose wall clock in z reads w.
\* Empty is LocalResult::None, two elements is LocalResult::Ambiguous.
FromLocal(z, w) == {u \in (w - 2)..(w + 2) : ToLocal(z, u) = w}

\* ------------------------------------------------------------------ texts
\* A date/time text, by the features the parsers test:
\*   hasT    it contains 'T'
\*   endsZ   its last character is 'Z'
\*   len     its length, capped at 8 (a well-formed text has 8 or more)
\*   numOk   how many of the leading components year, month, day are
\*           numeric (3: every component of the text is numeric)
\*   inRange every component is in range (a month 13 is not)
\*   val     the wall-clock instant it writes (for a date: the day number)
Text(hasT, endsZ, len, numOk, inRange, val) ==
    [hasT |-> hasT, endsZ |-> endsZ, len |-> len, numOk |-> numOk,
     inRange |-> inRange, val |-> val]

DateTimeText(w, z) == Text(TRUE, z, 8, 3, TRUE, w)
DateText(d) == Text(FALSE, FALSE, 8, 3, TRUE, d)
EmptyText == Text(FALSE, FALSE, 0, 0, FALSE, 0)

GoodTexts ==
    {DateTimeText(w, z) : w \in Instants, z \in BOOLEAN}
        \cup {DateText(d) : d \in Days}

BadTexts ==
    {Text(t, z, l, n, r, 1) :
        t \in BOOLEAN, z \in BOOLEAN, l \in {3, 4, 6, 8}, n \in 0..3,
        r \in BOOLEAN}
    \ GoodTexts

Texts == GoodTexts \cup BadTexts \cup {EmptyText}

Ok(v) == [tag |-> "Ok", val |-> v]
Err == [tag |-> "Err", val |-> 0]
Panic == [tag |-> "Panic", val |-> 0]
\* The result slot of a call that has not been made yet.
Pending == [tag |-> "Pending", val |-> 0]

\* ------------------------------------------------------------------ state
VARIABLES
    local,      \* the system's local zone (chrono::Local)
    dt_text,    \* parse harness: the text handed to the parser
    dt_tz,      \* parse harness: the TZID parameter, or None
    dt_res,     \* parse harness: what parse_datetime came back with
    mo_res,     \* parse harness: what Moment::parse came back with
    ma, mb, mc, \* ordering harness: three Moments
    ord,        \* ordering harness: the comparisons made of them
    loaded,     \* the events load_events returned
    arg_since,  \* load_upcoming_events: since, the start of the window
    arg_horizon, \* load_upcoming_events: horizon, the length of the window
    collected,  \* what filter_map yielded, each with its source index
    upcoming,   \* what load_upcoming_events returned
    sel_done,   \* load_upcoming_events has returned
    q_rule,     \* query harness: a recurrence set
    cursor,     \* query harness: the instant the next query starts from
    results,    \* query harness: the occurrences returned so far
    q_done,     \* query harness: a query returned None
    vevents,    \* parse_ics: how many VEVENTs the file holds
    events,     \* parse_ics: the events pushed so far
    event,      \* parse_ics: the event of the VEVENT being folded
    dtstart,    \* parse_ics: the reconstructed DTSTART fragment, if any
    pstate,     \* parse_ics: "between" VEVENTs, in a "fold", or how it ended
    fold_log,   \* history: what was folded into `event`
    scan_log,   \* history: the fold_log of each pushed event
    calendar,   \* remind: the events the .ics files hold at present
    now,        \* remind: the clock (Utc::now())
    remind_before, \* remind: how long before an event's start to remind
    refresh_count, \* remind: main's counter of loop rounds
    reminded,   \* remind: main's HashSet of event ids reminded of
    rpc,        \* remind: where main's loop is, or "exit"
    notified,   \* history: the notify-send commands spawned, in order
    skipped     \* history: the upcoming events passed over as reminded

dtVars == <<dt_text, dt_tz, dt_res, mo_res>>
ordVars == <<ma, mb, mc, ord>>
selVars == <<loaded, arg_since, arg_horizon, collected, upcoming, sel_done>>
qVars == <<q_rule, cursor, results, q_done>>
scanVars == <<vevents, events, event, dtstart, pstate, fold_log, scan_log>>
remVars == <<calendar, now, remind_before, refresh_count, reminded, rpc,
             notified, skipped>>
vars == <<local, dtVars, ordVars, selVars, qVars, scanVars, remVars>>

\* ------------------------------------------------------------------ ics.rs
\* get_tz is the lookup of the TZID parameter; a property's parameter bag is
\* modelled by that one value, None when the parameter is absent.
get_tz(params) == params

\* LocalResult::unwrap: the single instant, or a panic when the wall-clock
\* time does not exist or is ambiguous.
UnwrapLocal(c) ==
    IF Cardinality(c) = 1 THEN Ok(CHOOSE u \in c : TRUE) ELSE Panic

\* The all-day branch of parse_datetime: the three slices are taken and
\* parsed in order, then the local midnight is resolved and unwrapped.
ParseDateBranch(text, loc) ==
    IF text.len < 4 THEN Panic
    ELSE IF text.numOk < 1 THEN Err
    ELSE IF text.len < 6 THEN Panic
    ELSE IF text.numOk < 2 THEN Err
    ELSE IF text.len < 8 THEN Panic
    ELSE IF text.numOk < 3 THEN Err
    ELSE IF ~text.inRange THEN Panic
    ELSE UnwrapLocal(FromLocal(loc, text.val * DayLen))

\* NaiveDateTime::parse_from_str against "%Y%m%dT%H%M%S" (with a trailing Z
\* for a UTC text): any mismatch is a ParseError.
FormatMatches(text) == text.len = 8 /\ text.numOk = 3 /\ text.inRange

parse_datetime(text, time_zone, loc) ==
    LET is_utc == text.endsZ
    IN  IF ~is_utc /\ time_zone # None /\ time_zone \notin KnownZones
        THEN Panic
        ELSE LET tz == IF is_utc \/ time_zone = None THEN UTC ELSE time_zone
             IN  IF text.hasT
                 THEN IF ~FormatMatches(text) THEN Err
                      ELSE UnwrapLocal(FromLocal(tz, text.val))
                 ELSE ParseDateBranch(text, loc)

\* The anchor fragment reconstruct_datetime writes for the rule text: the
\* zone it names and the wall-clock time it prints in that zone.
reconstruct_datetime(datetime, time_zone) ==
    IF time_zone # None /\ time_zone \notin KnownZones THEN Panic
    ELSE LET tz == IF time_zone = None THEN UTC ELSE time_zone
         IN  Ok([zone |-> tz, wall |-> ToLocal(tz, datetime)])

\* ------------------------------------------------------------------ moment.rs
DateTimeMoment(t) == [kind |-> "DateTime", v |-> t]
DateMoment(d) == [kind |-> "Date", v |-> d]
Moments == {DateTimeMoment(t) : t \in Instants} \cup {DateMoment(d) : d \in Days}

\* DateTime::date(): the UTC calendar day of an instant.
DateOf(t) == t \div DayLen

\* The midnight instant of a Date (Date::and_hms(0, 0, 0)).
Midnight(d) == d * DayLen

MomentInstant(m) == IF m.kind = "DateTime" THEN m.v ELSE Midnight(m.v)

IntCmp(a, b) == IF a < b THEN "Less" ELSE IF a = b THEN "Equal" ELSE "Greater"

\* impl Ord for Moment
MomentCmp(self, other) ==
    IF self.kind = "DateTime"
    THEN IF other.kind = "DateTime"
         THEN IntCmp(self.v, other.v)
         ELSE IntCmp(DateOf(self.v), other.v)
    ELSE IF other.kind = "DateTime"
         THEN IntCmp(self.v, DateOf(other.v))
         ELSE IntCmp(self.v, other.v)

\* Moment::parse.  datetime_from_str reports a wall-clock time that does not
\* exist or is ambiguous as a ParseError; TimeZone::ymd panics on a date
\* that does not exist.
MomentParse(text, time_zone) ==
    IF text.len = 0 THEN Panic
    ELSE LET is_utc == text.endsZ
         IN  IF ~is_utc /\ time_zone # None /\ time_zone \notin KnownZones
             THEN Panic
             ELSE LET tz == IF is_utc \/ time_zone = None THEN UTC
                            ELSE time_zone
                  IN  IF text.hasT
                      THEN IF ~FormatMatches(text) THEN Err
                           ELSE LET c == FromLocal(tz, text.val)
                                IN  IF Cardinality(c) = 1
                                    THEN Ok(DateTimeMoment(CHOOSE u \in c : TRUE))
                                    ELSE Err
                      ELSE IF text.len < 4 THEN Panic
                      ELSE IF text.numOk < 1 THEN Err
                      ELSE IF text.len < 6 THEN Panic
                      ELSE IF text.numOk < 2 THEN Err
                      ELSE IF text.len < 8 THEN Panic
                      ELSE IF text.numOk < 3 THEN Err
                      ELSE IF ~text.inRange THEN Panic
                      ELSE IF Cardinality(FromLocal(tz, text.val * DayLen)) # 1
                           THEN Panic
                      ELSE Ok(DateMoment(text.val))

\* ------------------------------------------------------------------ rrule::RRuleSet
\* Option<DateTime>: NoInstant is None.
NoInstant == [some |-> FALSE, val |-> 0]
SomeInstant(t) == [some |-> TRUE, val |-> t]

\* A recurrence set: the rule (anchored at `anchor`, repeating every `step`
\* instants, `count` times; count 0 is a rule without COUNT, which never
\* ends), the excluded instants and the added instants.
\* NoRecurrence is Event.rrule = None.
NoRecurrence ==
    [some |-> FALSE, anchor |-> 0, step |-> 1, count |-> 0,
     exdates |-> {}, rdates |-> {}]
Recurrence(anchor, step, count) ==
    [some |-> TRUE, anchor |-> anchor, step |-> step, count |-> count,
     exdates |-> {}, rdates |-> {}]

\* A variant of exdate that excludes the whole calendar day of t.
exdate_wholeDay(rrule, t) ==
    [rrule EXCEPT !.exdates =
        @ \cup {x \in (t - DayLen)..(t + DayLen) : DateOf(x) = DateOf(t)}]

\* A variant of exdate whose result is lost.
exdate_dropped(rrule, t) == rrule

\* RRuleSet::exdate and RRuleSet::rdate
exdate(rrule, t) == [rrule EXCEPT !.exdates = @ \cup {t}]
rdate(rrule, t) == [rrule EXCEPT !.rdates = @ \cup {t}]

MinOf(S) == CHOOSE x \in S : \A y \in S : x <= y
MaxOf(S) == CHOOSE x \in S : \A y \in S : y <= x

\* The instants of the set that matter for a query at dt: the rule's
\* occurrences far enough past dt that the exclusions cannot hide all of
\* them, and the added instants; less the excluded instants, which are
\* matched by instant equality.
OccurrencesNear(rrule, dt) ==
    LET far == MaxOf({dt, rrule.anchor})
                   + rrule.step * (Cardinality(rrule.exdates) + 1)
        last == IF rrule.count = 0 THEN far - rrule.anchor
                ELSE rrule.step * (rrule.count - 1)
        rule == {rrule.anchor + k * rrule.step :
                    k \in {j \in 0..(far - rrule.anchor) :
                              j * rrule.step <= last}}
    IN  (rule \cup rrule.rdates) \ rrule.exdates

\* A variant of after that never counts dt itself.
after_exclusive(rrule, dt, inc) ==
    LET c == {x \in OccurrencesNear(rrule, dt) : x > dt}
    IN  IF c = {} THEN NoInstant ELSE SomeInstant(MinOf(c))

\* RRuleSet::after(dt, inc): the first occurrence after dt, dt itself
\* included when inc is true.
after(rrule, dt, inc) ==
    LET c == {x \in OccurrencesNear(rrule, dt) : IF inc THEN x >= dt ELSE x > dt}
    IN  IF c = {} THEN NoInstant ELSE SomeInstant(MinOf(c))

\* ------------------------------------------------------------------ event.rs
Epoch == 0
NoId == ""

\* Event::default
DefaultEvent ==
    [id |-> NoId, summary |-> None, start |-> Epoch, end |-> Epoch,
     rrule |-> NoRecurrence]

\* Event::duration
duration(e) == e.end - e.start

\* impl Ord for Event
EventCmp(self, other) ==
    LET o == IntCmp(self.start, other.start)
    IN  IF o = "Equal" THEN IntCmp(self.end, other.end) ELSE o

\* impl PartialEq for Event
EventEq(self, other) ==
    self.summary = other.summary /\ self.start = other.start
        /\ self.end = other.end

\* ------------------------------------------------------------------ main.rs
\* A variant of the closure that keeps an event still in progress at since.
Upcoming_checksEnd(ev, since, end) ==
    IF ev.rrule.some
    THEN LET next == after(ev.rrule, since, TRUE)
         IN  IF next.some /\ next.val <= end
             THEN LET d == duration(ev)
                  IN  <<[ev EXCEPT !.start = next.val, !.end = next.val + d]>>
             ELSE <<>>
    ELSE IF ev.end >= since /\ ev.start <= end THEN <<ev>> ELSE <<>>

\* The closure of filter_map in load_upcoming_events, for one event: the
\* event it yields (an empty sequence when it yields None).
Upcoming(ev, since, end) ==
    IF ev.rrule.some
    THEN LET next == after(ev.rrule, since, TRUE)
         IN  IF next.some /\ next.val <= end
             THEN LET d == duration(ev)
                  IN  <<[ev EXCEPT !.start = next.val, !.end = next.val + d]>>
             ELSE <<>>
    ELSE IF ev.start >= since /\ ev.start <= end THEN <<ev>> ELSE <<>>

\* events.into_iter().filter_map(..).collect(), each yielded event tagged
\* with the index of the event it came from.
RECURSIVE FilterMap(_, _, _, _)
FilterMap(evs, i, since, end) ==
    IF i > Len(evs) THEN <<>>
    ELSE LET out == Upcoming(evs[i], since, end)
         IN  (IF out = <<>> THEN <<>> ELSE <<[src |-> i, ev |-> out[1]]>>)
                 \o FilterMap(evs, i + 1, since, end)

\* Vec::sort: a stable sort by Ord.
RECURSIVE InsertSorted(_, _)
InsertSorted(sorted, x) ==
    IF sorted = <<>> THEN <<x>>
    ELSE IF EventCmp(x, sorted[Len(sorted)]) = "Less"
         THEN InsertSorted(SubSeq(sorted, 1, Len(sorted) - 1), x)
                  \o <<sorted[Len(sorted)]>>
         ELSE Append(sorted, x)

RECURSIVE SortEvents(_)
SortEvents(s) ==
    IF s = <<>> THEN <<>>
    ELSE InsertSorted(SortEvents(SubSeq(s, 1, Len(s) - 1)), s[Len(s)])

\* Vec::dedup: of every run of consecutive equal elements the first is kept.
RECURSIVE Dedup(_)
Dedup(s) ==
    IF Len(s) <= 1 THEN s
    ELSE LET d == Dedup(SubSeq(s, 1, Len(s) - 1))
         IN  IF EventEq(s[Len(s)], d[Len(d)]) THEN d ELSE Append(d, s[Len(s)])

Events(tagged) == [i \in 1..Len(tagged) |-> tagged[i].ev]

\* load_upcoming_events, from the events load_events returned
load_upcoming_events(evs, since, horizon) ==
    Dedup(SortEvents(Events(FilterMap(evs, 1, since, since + horizon))))

\* ------------------------------------------------------------------ ics.rs: parse_ics
\* `dtstart`, the Option<String> kept for the RRULE: None, or the fragment
\* reconstruct_datetime wrote.
NoAnchor == [some |-> FALSE, zone |-> UTC, wall |-> 0]
SomeAnchor(f) == [some |-> TRUE, zone |-> f.zone, wall |-> f.wall]

\* The instants the rule parser may anchor the rule at, given the fragment:
\* the instants whose wall clock in the fragment's zone reads as written.
AnchorInstants(f) == FromLocal(f.zone, f.wall)

\* A property of a VEVENT: its name, its value (None when it has none) and
\* its TZID parameter (None when it has none).
Prop(name, value, tzid) == [name |-> name, value |-> value, tzid |-> tzid]
NoValue == [some |-> FALSE, text |-> EmptyText, id |-> NoId, rule |-> 0]
TextValue(t) == [some |-> TRUE, text |-> t, id |-> NoId, rule |-> 0]
IdValue(i) == [some |-> TRUE, text |-> EmptyText, id |-> i, rule |-> 0]
\* An RRULE value: a rule repeating every `step` instants without a COUNT,
\* or (step 0) a text the rule grammar rejects.
RuleValue(step) == [some |-> TRUE, text |-> EmptyText, id |-> NoId, rule |-> step]

\* What has been folded into an event: how many properties, their names, the
\* instants of its RECURRENCE-ID properties, and the RRULE (-1) and EXDATE
\* (the instant) properties in the order they were folded.
EmptyLog == [n |-> 0, names |-> {}, recids |-> {}, rx |-> <<>>]

\* ------------------------------------------------------------------ harness: parsing
NotCompared == [ab |-> None, ba |-> None, bc |-> None, ac |-> None]

IdleDT ==
    dt_text = EmptyText /\ dt_tz = None /\ dt_res = Pending /\ mo_res = Pending
IdleOrd ==
    ma = DateMoment(0) /\ mb = DateMoment(0) /\ mc = DateMoment(0)
        /\ ord = NotCompared
IdleSel ==
    loaded = <<>> /\ arg_since = 0 /\ arg_horizon = 0 /\ collected = <<>>
        /\ upcoming = <<>> /\ sel_done = FALSE
IdleQuery ==
    q_rule = NoRecurrence /\ cursor = 0 /\ results = <<>> /\ q_done = FALSE
IdleScan ==
    vevents = 0 /\ events = <<>> /\ event = DefaultEvent /\ dtstart = NoAnchor
        /\ pstate = "between" /\ fold_log = EmptyLog /\ scan_log = <<>>
IdleRemind ==
    calendar = <<>> /\ now = 0 /\ remind_before = 0 /\ refresh_count = 0
        /\ reminded = {} /\ rpc = "exit" /\ notified = <<>> /\ skipped = {}

InitDT ==
    /\ local \in KnownZones
    /\ dt_text \in Texts
    /\ dt_tz \in TzParams
    /\ dt_res = Pending
    /\ mo_res = Pending
    /\ IdleOrd
    /\ IdleSel
    /\ IdleQuery
    /\ IdleScan
    /\ IdleRemind

CallParseDatetime ==
    /\ dt_res.tag = "Pending"
    /\ dt_res' = parse_datetime(dt_text, get_tz(dt_tz), local)
    /\ UNCHANGED <<local, dt_text, dt_tz, mo_res, ordVars, selVars, qVars, scanVars, remVars>>

CallMomentParse ==
    /\ mo_res.tag = "Pending"
    /\ mo_res' = MomentParse(dt_text, dt_tz)
    /\ UNCHANGED <<local, dt_text, dt_tz, dt_res, ordVars, selVars, qVars, scanVars, remVars>>

NextDT == CallParseDatetime \/ CallMomentParse

SpecDT == InitDT /\ [][NextDT]_vars

\* ------------------------------------------------------------------ harness: ordering
InitOrd ==
    /\ local = UTC
    /\ IdleDT
    /\ ma \in Moments
    /\ mb \in Moments
    /\ mc \in Moments
    /\ ord = NotCompared
    /\ IdleSel
    /\ IdleQuery
    /\ IdleScan
    /\ IdleRemind

CallCmp ==
    /\ ord = NotCompared
    /\ ord' = [ab |-> MomentCmp(ma, mb), ba |-> MomentCmp(mb, ma),
               bc |-> MomentCmp(mb, mc), ac |-> MomentCmp(ma, mc)]
    /\ UNCHANGED <<local, dtVars, ma, mb, mc, selVars, qVars, scanVars, remVars>>

NextOrd == CallCmp

SpecOrd == InitOrd /\ [][NextOrd]_vars

\* ------------------------------------------------------------------ harness: window selection
MaxStart == 2
MaxHorizon == 2
MaxLoaded == 2
MaxDupLoaded == 3

SeqsUpTo(D, n) == UNION {[1..k -> D] : k \in 0..n}

\* Events as parse_ics builds them: without a recurrence, with a counted
\* rule and an EXDATE, and with an unending rule with an EXDATE and an added
\* date; of negative, zero and positive duration.
LoadedEvents ==
    UNION {
        {[id |-> "u", summary |-> "s", start |-> st, end |-> st + d, rrule |-> rr] :
            d \in {-1, 0, 2},
            rr \in {NoRecurrence,
                    exdate(Recurrence(st, 2, 2), st + 2),
                    rdate(exdate(Recurrence(st - 1, 2, 0), st - 1), st)}}
        : st \in 1..MaxStart}

\* Events that differ in the summary only, or in the end only.
DupEvents ==
    {[id |-> "u", summary |-> sm, start |-> 1, end |-> en, rrule |-> NoRecurrence] :
        sm \in {"a", "b"}, en \in {1, 2}}

InitSelWith(inputs) ==
    /\ local = UTC
    /\ IdleDT
    /\ IdleOrd
    /\ IdleQuery
    /\ IdleScan
    /\ IdleRemind
    /\ loaded \in inputs
    /\ arg_since \in 0..(MaxStart + 2)
    /\ arg_horizon \in 0..MaxHorizon
    /\ collected = <<>>
    /\ upcoming = <<>>
    /\ sel_done = FALSE

InitSelect == InitSelWith(SeqsUpTo(LoadedEvents, MaxLoaded))
InitDedup == InitSelWith(SeqsUpTo(DupEvents, MaxDupLoaded))

\* One call of load_upcoming_events(since, horizon).
Select ==
    /\ ~sel_done
    /\ collected' = FilterMap(loaded, 1, arg_since, arg_since + arg_horizon)
    /\ upcoming' = load_upcoming_events(loaded, arg_since, arg_horizon)
    /\ sel_done' = TRUE
    /\ UNCHANGED <<local, dtVars, ordVars, loaded, arg_since, arg_horizon, qVars,
                   scanVars, remVars>>

NextSelect == Select

SpecSelect == InitSelect /\ [][NextSelect]_vars
SpecDedup == InitDedup /\ [][NextSelect]_vars

\* ------------------------------------------------------------------ harness: successive queries
MaxQueries == 4
MaxAnchor == 2

\* Weekly: seven civil days.
Week == 7 * DayLen
OtherInstantOfDay(t) == IF t % DayLen = 0 THEN t + 1 ELSE t - 1

\* A weekly rule whose second occurrence is excluded by an EXDATE, with or
\* without a COUNT; possibly with a date added on the calendar day of the
\* excluded occurrence, and an EXDATE on the calendar day of the third
\* occurrence at another instant.
InitQuery ==
    /\ local = UTC
    /\ IdleDT
    /\ IdleOrd
    /\ IdleSel
    /\ IdleScan
    /\ IdleRemind
    /\ \E a \in 1..MaxAnchor, n \in {0, 3, 4}, addR \in BOOLEAN, addX \in BOOLEAN :
          LET r0 == exdate(Recurrence(a, Week, n), a + Week)
              r1 == IF addR THEN rdate(r0, OtherInstantOfDay(a + Week)) ELSE r0
              r2 == IF addX THEN exdate(r1, OtherInstantOfDay(a + 2 * Week))
                    ELSE r1
          IN  q_rule = r2
    /\ cursor \in 0..(q_rule.anchor - 1)
    /\ results = <<>>
    /\ q_done = FALSE

\* rrule.after(since, true), then the next query starts just past the result.
Query ==
    /\ ~q_done
    /\ Len(results) < MaxQueries
    /\ LET next == after(q_rule, cursor, TRUE)
       IN  IF next.some
           THEN /\ results' = Append(results, next.val)
                /\ cursor' = next.val + 1
                /\ UNCHANGED q_done
           ELSE /\ q_done' = TRUE
                /\ UNCHANGED <<results, cursor>>
    /\ UNCHANGED <<local, dtVars, ordVars, selVars, q_rule, scanVars, remVars>>

NextQuery == Query

SpecQuery == InitQuery /\ [][NextQuery]_vars

\* ------------------------------------------------------------------ harness: parse_ics
MaxProps == 3
MaxEvents == 2

\* The properties a VEVENT of the file may hold.
MalformedText == Text(TRUE, FALSE, 8, 0, FALSE, 1)
TruncatedText == Text(FALSE, FALSE, 3, 0, FALSE, 1)

UidProps == {Prop("UID", v, None) : v \in {IdValue("a"), IdValue("b"), NoValue}}
DtstartProps ==
    {Prop("DTSTART", TextValue(DateTimeText(1, TRUE)), None),
     Prop("DTSTART", TextValue(DateTimeText(2, FALSE)), NamedZone),
     Prop("DTSTART", TextValue(DateTimeText(1, TRUE)), BogusZone),
     Prop("DTSTART", TextValue(DateText(1)), None),
     Prop("DTSTART", TextValue(MalformedText), None),
     Prop("DTSTART", NoValue, None)}
DtendProps ==
    {Prop("DTEND", TextValue(DateTimeText(3, TRUE)), None),
     Prop("DTEND", TextValue(TruncatedText), None)}
RruleProps == {Prop("RRULE", v, None) : v \in {RuleValue(2), RuleValue(0), NoValue}}
ExdateProps ==
    {Prop("EXDATE", TextValue(DateTimeText(3, TRUE)), None),
     Prop("EXDATE", NoValue, None)}
RecurrenceIdProps ==
    {Prop("RECURRENCE-ID", TextValue(DateTimeText(2, TRUE)), None),
     Prop("RECURRENCE-ID", TextValue(MalformedText), None)}

InitScanWith(counts) ==
    /\ local \in KnownZones
    /\ IdleDT
    /\ IdleOrd
    /\ IdleSel
    /\ IdleQuery
    /\ IdleRemind
    /\ vevents \in counts
    /\ events = <<>>
    /\ event = DefaultEvent
    /\ dtstart = NoAnchor
    /\ pstate = "between"
    /\ fold_log = EmptyLog
    /\ scan_log = <<>>

InitScan == InitScanWith(0..MaxEvents)
InitFold == InitScanWith({1})

notScan == <<local, dtVars, ordVars, selVars, qVars, remVars>>

\* `let mut event = Event::default(); let mut dtstart = None;`
BeginEvent ==
    /\ pstate = "between"
    /\ Len(events) < vevents
    /\ pstate' = "fold"
    /\ event' = DefaultEvent
    /\ dtstart' = NoAnchor
    /\ fold_log' = EmptyLog
    /\ UNCHANGED <<vevents, events, scan_log, notScan>>

\* A `?` that returns the error from parse_ics, or a panic: either way no
\* event of the file is returned.
Abort(r) ==
    /\ pstate' = IF r.tag = "Err" THEN "err" ELSE "panic"
    /\ UNCHANGED <<vevents, events, event, dtstart, fold_log, scan_log, notScan>>

Folding == pstate = "fold" /\ fold_log.n < MaxProps
Logged(name) == [fold_log EXCEPT !.n = @ + 1, !.names = @ \cup {name}]

\* "UID" => event.id = prop.value.unwrap()
FoldUid ==
    /\ Folding
    /\ \E p \in UidProps :
          IF ~p.value.some THEN Abort(Panic)
          ELSE /\ event' = [event EXCEPT !.id = p.value.id]
               /\ fold_log' = Logged(p.name)
               /\ UNCHANGED <<vevents, events, dtstart, pstate, scan_log, notScan>>

\* "SUMMARY" => event.summary = prop.value   (DESCRIPTION and LOCATION are
\* stored the same way and read by nothing modelled here)
FoldSummary ==
    /\ Folding
    /\ event' = [event EXCEPT !.summary = "s"]
    /\ fold_log' = Logged("SUMMARY")
    /\ UNCHANGED <<vevents, events, dtstart, pstate, scan_log, notScan>>

\* _ => ()
FoldOther ==
    /\ Folding
    /\ fold_log' = Logged("OTHER")
    /\ UNCHANGED <<vevents, events, event, dtstart, pstate, scan_log, notScan>>

\* "DTSTART"
FoldDtstart ==
    /\ Folding
    /\ \E p \in DtstartProps :
          IF ~p.value.some THEN Abort(Panic)
          ELSE LET r == parse_datetime(p.value.text, get_tz(p.tzid), local)
               IN  IF r.tag # "Ok" THEN Abort(r)
                   ELSE LET f == reconstruct_datetime(r.val, get_tz(p.tzid))
                        IN  IF f.tag # "Ok" THEN Abort(f)
                            ELSE /\ event' = [event EXCEPT !.start = r.val]
                                 /\ dtstart' = SomeAnchor(f.val)
                                 /\ fold_log' = Logged(p.name)
                                 /\ UNCHANGED <<vevents, events, pstate,
                                                scan_log, notScan>>

\* "DTEND"
FoldDtend ==
    /\ Folding
    /\ \E p \in DtendProps :
          IF ~p.value.some THEN Abort(Panic)
          ELSE LET r == parse_datetime(p.value.text, get_tz(p.tzid), local)
               IN  IF r.tag # "Ok" THEN Abort(r)
                   ELSE /\ event' = [event EXCEPT !.end = r.val]
                        /\ fold_log' = Logged(p.name)
                        /\ UNCHANGED <<vevents, events, dtstart, pstate,
                                       scan_log, notScan>>

\* "RRULE": the rule text is "DTSTART" + dtstart.unwrap() + "\n" + value,
\* parsed into a fresh RRuleSet, anchored at an instant whose wall clock in
\* the fragment's zone reads as the fragment says.
FoldRrule ==
    /\ Folding
    /\ \E p \in RruleProps :
          IF ~dtstart.some \/ ~p.value.some THEN Abort(Panic)
          ELSE IF p.value.rule = 0 THEN Abort(Err)
          ELSE \E a \in AnchorInstants(dtstart) :
                  /\ event' = [event EXCEPT
                                  !.rrule = Recurrence(a, p.value.rule, 0)]
                  /\ fold_log' = [Logged(p.name) EXCEPT !.rx = Append(@, -1)]
                  /\ UNCHANGED <<vevents, events, dtstart, pstate,
                                 scan_log, notScan>>

\* "EXDATE"
FoldExdate ==
    /\ Folding
    /\ \E p \in ExdateProps :
          IF ~p.value.some THEN Abort(Panic)
          ELSE LET r == parse_datetime(p.value.text, get_tz(p.tzid), local)
               IN  IF r.tag # "Ok" THEN Abort(r)
                   ELSE /\ event' = IF event.rrule.some
                                    THEN [event EXCEPT !.rrule = exdate(@, r.val)]
                                    ELSE event
                        /\ fold_log' = [Logged(p.name) EXCEPT
                                           !.rx = Append(@, r.val)]
                        /\ UNCHANGED <<vevents, events, dtstart, pstate,
                                       scan_log, notScan>>

\* events.iter_mut().find(|ev| ev.id == event.id)
FindById(evs, id) ==
    LET idx == {i \in 1..Len(evs) : evs[i].id = id}
    IN  IF idx = {} THEN 0 ELSE MinOf(idx)

\* "RECURRENCE-ID"
FoldRecurrenceId ==
    /\ Folding
    /\ \E p \in RecurrenceIdProps :
          LET orig == FindById(events, event.id)
              r == parse_datetime(p.value.text, get_tz(p.tzid), local)
              noted == [Logged(p.name) EXCEPT
                           !.recids = IF r.tag = "Ok" THEN @ \cup {r.val} ELSE @]
          IN  IF orig = 0
              THEN /\ fold_log' = noted
                   /\ UNCHANGED <<vevents, events, event, dtstart, pstate,
                                  scan_log, notScan>>
              ELSE IF ~p.value.some THEN Abort(Panic)
              ELSE IF r.tag # "Ok" THEN Abort(r)
              ELSE /\ events' = IF events[orig].rrule.some
                                THEN [events EXCEPT ![orig].rrule = rdate(@, r.val)]
                                ELSE events
                   /\ fold_log' = noted
                   /\ UNCHANGED <<vevents, event, dtstart, pstate, scan_log,
                                  notScan>>

\* events.push(event), at the end of the VEVENT's property list
PushEvent ==
    /\ pstate = "fold"
    /\ events' = Append(events, event)
    /\ scan_log' = Append(scan_log, fold_log)
    /\ pstate' = "between"
    /\ event' = DefaultEvent
    /\ dtstart' = NoAnchor
    /\ fold_log' = EmptyLog
    /\ UNCHANGED <<vevents, notScan>>

\* Ok(events), after the last VEVENT
ReturnEvents ==
    /\ pstate = "between"
    /\ Len(events) = vevents
    /\ pstate' = "ok"
    /\ UNCHANGED <<vevents, events, event, dtstart, fold_log, scan_log, notScan>>

NextScan ==
    \/ BeginEvent
    \/ FoldRrule
    \/ FoldDtstart
    \/ FoldDtend
    \/ FoldExdate
    \/ FoldUid
    \/ FoldSummary
    \/ FoldOther
    \/ FoldRecurrenceId
    \/ PushEvent
    \/ ReturnEvents

SpecScan == InitScan /\ [][NextScan]_vars
SpecFold == InitFold /\ [][NextScan]_vars

\* ------------------------------------------------------------------ main.rs: remind
UPDATE_EVERY == 5

MaxNow == 4
MaxRemStart == 2
MaxRemindBefore == 1
MaxCalendar == 2

\* The events of the calendar files: two identifiers, each either a single
\* event or an unending rule with an occurrence every second instant.
RemindEvents ==
    UNION {
        {[id |-> i, summary |-> "s", start |-> st, end |-> st + 1, rrule |-> rr] :
            i \in {"a", "b"}, rr \in {NoRecurrence, Recurrence(st, 2, 0)}}
        : st \in 1..MaxRemStart}

Calendars == SeqsUpTo(RemindEvents, MaxCalendar)

\* What refresh() may leave in the calendar files: what was there, or that
\* with one event withdrawn, one event moved (the identifier kept), or one
\* event added since the last download.
Without(cal, i) == SubSeq(cal, 1, i - 1) \o SubSeq(cal, i + 1, Len(cal))
Refreshed(cal) ==
    {cal}
        \cup {Without(cal, i) : i \in DOMAIN cal}
        \cup UNION {{[cal EXCEPT ![i] = e] : e \in {x \in RemindEvents : x.id = cal[i].id}}
                       : i \in DOMAIN cal}
        \cup {Append(cal, e) : e \in {x \in RemindEvents : Len(cal) < MaxCalendar}}

\* A variant of the test that never consults the reminded set.
ShouldNotify_always(set, ev) == TRUE

\* remind: the test `!reminded.contains(&event.id)`
ShouldNotify(set, ev) == ev.id \notin set

Notice(ev) == [id |-> ev.id, start |-> ev.start]

\* remind's loop over upcoming[i..], given the set and the histories so far.
\* `fail` is the position of the event whose notify-send cannot be spawned
\* (0: every spawn succeeds); the `?` returns before the insert.
RECURSIVE RemindLoop(_, _, _, _, _, _)
RemindLoop(up, i, set, sent, passed, fail) ==
    IF i > Len(up)
    THEN [ok |-> TRUE, reminded |-> set, notified |-> sent, skipped |-> passed]
    ELSE IF ShouldNotify(set, up[i])
         THEN IF i = fail
              THEN [ok |-> FALSE, reminded |-> set, notified |-> sent,
                    skipped |-> passed]
              ELSE RemindLoop(up, i + 1, set \cup {up[i].id},
                              Append(sent, Notice(up[i])), passed, fail)
         ELSE RemindLoop(up, i + 1, set, sent,
                         passed \cup {Notice(up[i])}, fail)

\* main, "remind": the state on entry to the loop.
InitRemind ==
    /\ local = UTC
    /\ IdleDT
    /\ IdleOrd
    /\ IdleSel
    /\ IdleQuery
    /\ IdleScan
    /\ calendar \in Calendars
    /\ now = 0
    /\ remind_before \in 1..MaxRemindBefore
    /\ refresh_count = 0
    /\ reminded = {}
    /\ rpc = "top"
    /\ notified = <<>>
    /\ skipped = {}

notRemind == <<local, dtVars, ordVars, selVars, qVars, scanVars>>

\* The head of a round: the counter, and every UPDATE_EVERY rounds refresh(),
\* which rewrites the calendar files or fails and ends the run.  A failed
\* refresh may have rewritten some files, which nothing reads afterwards.
Round ==
    /\ rpc = "top"
    /\ IF (refresh_count + 1) % UPDATE_EVERY = 0
       THEN \/ /\ calendar' \in Refreshed(calendar)
               /\ refresh_count' = 0
               /\ rpc' = "remind"
            \/ /\ refresh_count' = refresh_count + 1
               /\ rpc' = "exit"
               /\ UNCHANGED calendar
       ELSE /\ refresh_count' = refresh_count + 1
            /\ rpc' = "remind"
            /\ UNCHANGED calendar
    /\ UNCHANGED <<now, remind_before, reminded, notified, skipped, notRemind>>

\* remind(&mut reminded, remind_before), load_events having succeeded.
Remind ==
    /\ rpc = "remind"
    /\ LET up == load_upcoming_events(calendar, now, remind_before)
       IN  \E fail \in 0..Len(up) :
               LET r == RemindLoop(up, 1, reminded, notified, skipped, fail)
               IN  /\ reminded' = r.reminded
                   /\ notified' = r.notified
                   /\ skipped' = r.skipped
                   /\ rpc' = IF r.ok THEN "sleep" ELSE "exit"
    /\ UNCHANGED <<calendar, now, remind_before, refresh_count, notRemind>>

\* remind, load_events failing: the `?` of load_upcoming_events returns.
RemindLoadFails ==
    /\ rpc = "remind"
    /\ rpc' = "exit"
    /\ UNCHANGED <<calendar, now, remind_before, refresh_count, reminded,
                   notified, skipped, notRemind>>

\* std::thread::sleep(sleep_dur): at least the interval passes.
Sleep ==
    /\ rpc = "sleep"
    /\ \E d \in 1..2 :
           /\ now + d <= MaxNow
           /\ now' = now + d
    /\ rpc' = "top"
    /\ UNCHANGED <<calendar, remind_before, refresh_count, reminded, notified,
                   skipped, notRemind>>

NextRemind == Round \/ Remind \/ RemindLoadFails \/ Sleep
SpecRemind == InitRemind /\ [][NextRemind]_vars

\* ------------------------------------------------------------------ claims: window selection
WindowEnd == arg_since + arg_horizon
InWindow(t) == arg_since <= t /\ t <= WindowEnd
YieldedFrom(i) == {j \in 1..Len(collected) : collected[j].src = i}
Returned(e) == \E k \in 1..Len(upcoming) : upcoming[k] = e
ReturnedLike(e) == \E k \in 1..Len(upcoming) : EventEq(upcoming[k], e)

\* C1: an event without a recurrence is emitted iff since <= start <=
\* since + horizon, and emitted with start and end unchanged; its end is not
\* consulted, so an event in progress at since is not emitted.  (In the
\* returned list "emitted" is up to Event's own equality: dedup may keep an
\* equal entry, of the same summary, start and end, in its place.)
C1_NonRecurringWindow ==
    sel_done =>
        \A i \in 1..Len(loaded) :
            LET e == loaded[i]
            IN  ~e.rrule.some =>
                    /\ InWindow(e.start) <=> YieldedFrom(i) # {}
                    /\ \A j \in YieldedFrom(i) : collected[j].ev = e
                    /\ InWindow(e.start) <=> ReturnedLike(e)
                    /\ (e.start < arg_since /\ arg_since < e.end)
                           => ~ReturnedLike(e)

\* C1's case: one event in progress at since is left out while another,
\* starting inside the window, is returned.
C1_Witness ==
    /\ sel_done
    /\ \E i, j \in 1..Len(loaded) :
          /\ ~loaded[i].rrule.some /\ ~loaded[j].rrule.some
          /\ loaded[i].start < arg_since /\ arg_since < loaded[i].end
          /\ YieldedFrom(i) = {}
          /\ InWindow(loaded[j].start) /\ Returned(loaded[j])

\* What an occurrence of a recurrence set is, stated without the evaluator:
\* an instant of the rule's progression within its count, or an added
\* instant, that is not an excluded instant.
IsOccurrence(r, x) ==
    /\ x \notin r.exdates
    /\ \/ x \in r.rdates
       \/ /\ x >= r.anchor
          /\ (x - r.anchor) % r.step = 0
          /\ (r.count = 0 \/ (x - r.anchor) \div r.step < r.count)

IsNextOnOrAfter(r, t, x) ==
    /\ x >= t
    /\ IsOccurrence(r, x)
    /\ \A y \in t..(x - 1) : ~IsOccurrence(r, y)

\* C2: an event with a recurrence yields at most one event per call; it
\* yields one iff its next non-excluded occurrence on or after since (since
\* included) exists and is <= since + horizon, and that event starts at the
\* occurrence and ends at start + (template end - template start).
C2_RecurringWindow ==
    sel_done =>
        \A i \in 1..Len(loaded) :
            LET e == loaded[i]
                nexts == {x \in arg_since..WindowEnd :
                             IsNextOnOrAfter(e.rrule, arg_since, x)}
            IN  e.rrule.some =>
                    /\ Cardinality(YieldedFrom(i)) <= 1
                    /\ YieldedFrom(i) # {} <=> nexts # {}
                    /\ \A j \in YieldedFrom(i) :
                          /\ collected[j].ev.start \in nexts
                          /\ collected[j].ev.end
                                 = collected[j].ev.start + (e.end - e.start)
                          /\ ReturnedLike(collected[j].ev)

\* C2's case: a recurring event of zero or negative duration whose own
\* start lies before since is projected onto a later occurrence.
C2_Witness ==
    /\ sel_done
    /\ \E i \in 1..Len(loaded) :
          /\ loaded[i].rrule.some
          /\ loaded[i].end <= loaded[i].start
          /\ loaded[i].start < arg_since
          /\ \E j \in YieldedFrom(i) :
                /\ collected[j].ev.start > loaded[i].start
                /\ Returned(collected[j].ev)

\* C3: the output is sorted ascending by (start, end), and no two of its
\* entries have the same start, the same end and the same summary.
C3_SortedAndDeduplicated ==
    sel_done =>
        /\ \A k \in 1..(Len(upcoming) - 1) :
              EventCmp(upcoming[k], upcoming[k + 1]) # "Greater"
        /\ \A k, l \in 1..Len(upcoming) :
              k # l => ~EventEq(upcoming[k], upcoming[l])

\* ------------------------------------------------------------------ claims: exclusion
\* The k-th occurrence of the rule of q_rule, counting from 1.
RuleOccurrence(k) == q_rule.anchor + (k - 1) * q_rule.step
ExcludedSecond == RuleOccurrence(2)

\* The rule's own occurrences among the results, in the order returned.
RuleResults == SelectSeq(results, LAMBDA x : x \notin q_rule.rdates)

ScanReturned == pstate = "ok"
Records == 1..Len(events)

\* C5: a record carrying RECURRENCE-ID is emitted as its own Event; when an
\* Event with the same identifier exists in the batch and owns a Recurrence,
\* the RECURRENCE-ID instant is among that parent's added dates, whatever
\* the order of the records; and no other Event is changed: an Event's
\* added dates all come from RECURRENCE-ID records of its own identifier.
C5_OverrideLinked ==
    /\ ScanReturned => Len(events) = vevents
    /\ ScanReturned =>
          \A i \in Records : \A j \in Records \ {i} :
              /\ (/\ events[i].id # NoId
                  /\ events[j].id = events[i].id
                  /\ events[j].rrule.some)
                     => scan_log[i].recids \subseteq events[j].rrule.rdates
              /\ events[j].id # events[i].id
                     => \A x \in events[j].rrule.rdates :
                            \E k \in Records \ {j} :
                                /\ events[k].id = events[j].id
                                /\ x \in scan_log[k].recids

\* C6: a VEVENT that lacks DTSTART and/or DTEND, or is otherwise malformed,
\* does not abort the scan of its file, and an event without DTSTART (DTEND)
\* is returned with its start (end) at the epoch.
C6_MalformedEventDoesNotAbort ==
    /\ pstate \notin {"err", "panic"}
    /\ ScanReturned =>
          \A i \in Records :
              /\ "DTSTART" \notin scan_log[i].names => events[i].start = Epoch
              /\ "DTEND" \notin scan_log[i].names => events[i].end = Epoch

\* C7: every returned Event that owns a Recurrence has it anchored at the
\* Event's own start.
C7_AnchorIsStart ==
    ScanReturned =>
        \A i \in Records :
            events[i].rrule.some => events[i].rrule.anchor = events[i].start

\* The EXDATE instants folded after the last RRULE of a VEVENT, and those
\* folded before its first RRULE.
RulePositions(rx) == {k \in 1..Len(rx) : rx[k] = -1}
ExdatesAfterRule(rx) ==
    {rx[k] : k \in {j \in 1..Len(rx) :
                       /\ rx[j] # -1
                       /\ RulePositions(rx) # {}
                       /\ \A r \in RulePositions(rx) : r < j}}
ExdatesBeforeRule(rx) ==
    {rx[k] : k \in {j \in 1..Len(rx) :
                       rx[j] # -1 /\ \A r \in RulePositions(rx) : j < r}}

\* An event together with what was folded into it: the one being folded
\* and those pushed.
Folded ==
    (IF pstate = "between" THEN {} ELSE {<<event, fold_log>>})
        \cup {<<events[i], scan_log[i]>> : i \in Records}

\* C10: an EXDATE is added to the exclusions only if an RRULE of the same
\* VEVENT was folded before it; an EXDATE folded before the RRULE is
\* discarded, and the recurrence then still yields that instant when the
\* rule lands on it.
C10_ExdateNeedsEarlierRule ==
    \A f \in Folded :
        LET e == f[1]
            rx == f[2].rx
        IN  /\ e.rrule.some <=> RulePositions(rx) # {}
            /\ e.rrule.exdates = ExdatesAfterRule(rx)
            /\ \A x \in ExdatesBeforeRule(rx) \ ExdatesAfterRule(rx) :
                  (/\ e.rrule.some
                   /\ x >= e.rrule.anchor
                   /\ (x - e.rrule.anchor) % e.rrule.step = 0)
                      => after(e.rrule, x, TRUE) = SomeInstant(x)

\* C10's case: a returned event whose EXDATE came before its RRULE: the
\* exclusion set is empty and the rule yields the instant.
C10_Witness ==
    /\ ScanReturned
    /\ \E i \in Records :
          /\ Len(scan_log[i].rx) = 2
          /\ scan_log[i].rx[1] # -1 /\ scan_log[i].rx[2] = -1
          /\ events[i].rrule.some
          /\ events[i].rrule.exdates = {}
          /\ after(events[i].rrule, scan_log[i].rx[1], TRUE)
                 = SomeInstant(scan_log[i].rx[1])

\* ------------------------------------------------------------------ claims: Moment ordering
Flip(o) == IF o = "Less" THEN "Greater" ELSE IF o = "Greater" THEN "Less" ELSE o

\* C8: Date(d) < DateTime(t) iff the midnight instant of d is before t; the
\* comparison is antisymmetric and transitive over any three mixed values,
\* and two values compare Equal only when they are equal.
C8_MomentTotalOrder ==
    ord # NotCompared =>
        /\ (ma.kind = "Date" /\ mb.kind = "DateTime")
               => ((ord.ab = "Less") <=> (Midnight(ma.v) < mb.v))
        /\ ord.ab = Flip(ord.ba)
        /\ (ord.ab \in {"Less", "Equal"} /\ ord.bc \in {"Less", "Equal"})
               => ord.ac \in {"Less", "Equal"}
        /\ (ord.ab = "Less" /\ ord.bc \in {"Less", "Equal"}) => ord.ac = "Less"
        /\ (ord.ab = "Equal") => (MomentInstant(ma) = MomentInstant(mb))

\* ------------------------------------------------------------------ claims: parse failures
\* The failure cases the contract of the instant parser lists.
NotAnInstantForm(text) == text.len < 8
BadComponent(text) == text.numOk < 3 \/ ~text.inRange
UnknownZone(text, tz) == tz \notin (KnownZones \cup {None})
NoSingleWallClock(text, tz) ==
    /\ text.hasT /\ ~text.endsZ /\ FormatMatches(text)
    /\ tz \in KnownZones
    /\ Cardinality(FromLocal(tz, text.val)) # 1

MalformedInstant(text, tz) ==
    \/ NotAnInstantForm(text)
    \/ BadComponent(text)
    \/ UnknownZone(text, tz)
    \/ NoSingleWallClock(text, tz)

\* C9: in each failure case (not a date or date-time form, a non-numeric or
\* out-of-range component, an unknown zone name, a wall-clock time that does
\* not exist or is ambiguous) the parser returns an error value and does not
\* crash.
C9_MalformedIsError ==
    MalformedInstant(dt_text, dt_tz) =>
        /\ dt_res.tag # "Pending" => dt_res.tag = "Err"
        /\ mo_res.tag # "Pending" => mo_res.tag = "Err"


\* ------------------------------------------------------------------ claims: reminders
NotifiedIds == {notified[i].id : i \in DOMAIN notified}

OncePerId ==
    /\ \A i, j \in DOMAIN notified : notified[i].id = notified[j].id => i = j
    /\ reminded = NotifiedIds

Lasting ==
    /\ reminded \subseteq reminded'
    /\ Len(notified) <= Len(notified')
    /\ SubSeq(notified', 1, Len(notified)) = notified
    /\ \A i \in (Len(notified) + 1)..Len(notified') :
           notified'[i].id \notin reminded

\* C11: within one run of "remind" at most one notification is sent per event
\* identifier; the reminded set is the set of identifiers notified of, an
\* identifier once in it is never removed, and no step sends a notification
\* for an identifier already in it, a later occurrence of the same recurring
\* event included.
C11_OneNotificationPerId == []OncePerId /\ [][Lasting]_vars

\* A recurring event was notified of, and in a later round its next
\* occurrence was upcoming and was passed over.
C11_Witness ==
    \E i \in DOMAIN notified : \E k \in skipped :
        k.id = notified[i].id /\ k.start > notified[i].start

====
